---- MODULE Spec2Model ----
(***************************************************************************)
(* A model of the spin-locking synchronisation primitives of skirt:        *)
(*   Mutex / MutexGuard   (src/src/mutex.rs)                               *)
(*   Once                 (src/src/once.rs)                                *)
(*   OnceLock             (src/src/once_lock.rs)                           *)
(*   LazyLock             (src/src/lazy_lock.rs)                           *)
(* Threads interleave at the granularity of single atomic operations and   *)
(* single accesses to the protected memory.  Atomics are sequentially      *)
(* consistent in the model.                                                *)
(***************************************************************************)
EXTENDS Integers, Sequences, FiniteSets, TLC

\* ------------------------------------------------------------------ bounds
\* Number of threads sharing the one object under study.
NThreads == 2
\* Number of increments each thread performs in the counter scenario.
MaxIncs == 2

Threads == 1..NThreads

\* --------------------------------------------------------------- constants
\* mutex.rs:104 / mutex.rs:125: `tries >= 10` selects yield_now over tries += 1.
SpinLimit == 10

VARIABLES
  std,     \* build configuration: cfg(feature = "std")
  hint,    \* per thread: what the last turn of the waiting loop it is in executed
  \* Mutex<T>
  lock,    \* Mutex::lock, the AtomicBool
  data,    \* Mutex::data, the protected integer
  mpc,     \* per thread: position in the mutex operations
  guard,   \* per thread: the MutexGuard the caller holds, by the call that made it
  tries,   \* per thread: the local `tries` of lock() / lock_weak()
  tmp,     \* per thread: the value read through the guard, not yet written back
  incs,    \* per thread: completed read-increment-write steps
  \* Once, and the cells built on it
  state,   \* Once::state, the AtomicU8
  slot,    \* the memory the once-action writes: OnceLock::data, LazyLock::data
  pc,      \* per thread: position in call_once and in the operation that called it
  op,      \* per thread: the operation the thread is in
  arg,     \* per thread: the value the operation was called with
  res,     \* per thread: what the thread's last finished operation returned
  ran,     \* the threads whose action ran under the current Once, in order
  hist,    \* the stores to the current Once's state: <<from, to, thread>>
  obsLog   \* what is_completed() has returned on the current Once, compressed

mvars == <<lock, data, mpc, guard, tries, tmp, incs>>
ovars == <<state, slot, pc, op, arg, res, ran, hist, obsLog>>
vars == <<std, hint, mvars, ovars>>

\* ------------------------------------------------------------------ Mutex

\* AtomicBool::compare_exchange(false, true, Acquire, Relaxed).is_ok()
CompareExchange(cur) == cur = FALSE

\* The backoff after a failed attempt: spin_loop(), and under std
\* `match tries >= 10 { true => yield_now(), false => tries += 1 }`.
Backoff(n) == IF std /\ n < SpinLimit THEN n + 1 ELSE n

\* Mutant of the loop body: the yield comes one failed attempt early.
M_HintOffByOne(n) == IF std /\ n + 1 >= SpinLimit THEN "yield" ELSE "spin"

\* What the loop body of lock() / lock_weak() executes after a failed attempt
\* made with `tries` at n: spin_loop() alone, or, under std with tries >= 10,
\* spin_loop() and then yield_now().
Hint(n) == IF std /\ n >= SpinLimit THEN "yield" ELSE "spin"

\* Mutex::new(0); no thread is in a waiting loop.
MutexNew ==
  /\ hint = [t \in Threads |-> "none"]
  /\ lock = FALSE
  /\ data = 0
  /\ mpc = [t \in Threads |-> "idle"]
  /\ guard = [t \in Threads |-> "none"]
  /\ tries = [t \in Threads |-> 0]
  /\ tmp = [t \in Threads |-> 0]
  /\ incs = [t \in Threads |-> 0]

\* A thread enters lock(): `let mut tries = 0;`
LockCall(t) ==
  /\ mpc[t] = "idle" /\ guard[t] = "none"
  /\ mpc' = [mpc EXCEPT ![t] = "lock"]
  /\ tries' = [tries EXCEPT ![t] = 0]
  /\ UNCHANGED <<std, hint, ovars, lock, data, guard, tmp, incs>>

\* The loop condition `self.try_lock().is_none()` when try_lock() returns
\* Some: the compare-exchange has set the flag, and the Option<MutexGuard> is a
\* temporary of the condition expression.
LockTrySome(t) ==
  /\ mpc[t] = "lock"
  /\ CompareExchange(lock)
  /\ lock' = TRUE
  /\ mpc' = [mpc EXCEPT ![t] = "lock_tmp"]
  /\ UNCHANGED <<std, hint, ovars, data, guard, tries, tmp, incs>>

\* The loop condition when try_lock() returns None: the loop body runs.
LockTryNone(t) ==
  /\ mpc[t] = "lock"
  /\ ~CompareExchange(lock)
  /\ tries' = [tries EXCEPT ![t] = Backoff(tries[t])]
  /\ hint' = [hint EXCEPT ![t] = Hint(tries[t])]
  /\ UNCHANGED <<std, ovars, lock, data, mpc, guard, tmp, incs>>

\* The temporary guard of the loop condition is dropped at the end of the
\* condition (MutexGuard::drop stores false), the loop ends and
\* `MutexGuard::new(self)` is returned to the caller; the local `tries` ends.
LockReturn(t) ==
  /\ mpc[t] = "lock_tmp"
  /\ lock' = FALSE
  /\ guard' = [guard EXCEPT ![t] = "lock"]
  /\ mpc' = [mpc EXCEPT ![t] = "held"]
  /\ tries' = [tries EXCEPT ![t] = 0]
  /\ hint' = [hint EXCEPT ![t] = "none"]
  /\ UNCHANGED <<std, ovars, data, tmp, incs>>

\* A thread enters lock_weak().
LockWeakCall(t) ==
  /\ mpc[t] = "idle" /\ guard[t] = "none"
  /\ mpc' = [mpc EXCEPT ![t] = "lock_weak"]
  /\ tries' = [tries EXCEPT ![t] = 0]
  /\ UNCHANGED <<std, hint, ovars, lock, data, guard, tmp, incs>>

\* compare_exchange_weak succeeds: the loop ends, the guard is returned.
LockWeakSome(t) ==
  /\ mpc[t] = "lock_weak"
  /\ CompareExchange(lock)
  /\ lock' = TRUE
  /\ guard' = [guard EXCEPT ![t] = "lock_weak"]
  /\ mpc' = [mpc EXCEPT ![t] = "held"]
  /\ tries' = [tries EXCEPT ![t] = 0]
  /\ hint' = [hint EXCEPT ![t] = "none"]
  /\ UNCHANGED <<std, ovars, data, tmp, incs>>

\* compare_exchange_weak fails, because the flag is set or spuriously.
LockWeakFail(t) ==
  /\ mpc[t] = "lock_weak"
  /\ tries' = [tries EXCEPT ![t] = Backoff(tries[t])]
  /\ hint' = [hint EXCEPT ![t] = Hint(tries[t])]
  /\ UNCHANGED <<std, ovars, lock, data, mpc, guard, tmp, incs>>

\* try_lock() called by the user and returning Some(guard).
TryLockSome(t) ==
  /\ mpc[t] = "idle" /\ guard[t] = "none"
  /\ CompareExchange(lock)
  /\ lock' = TRUE
  /\ guard' = [guard EXCEPT ![t] = "try_lock"]
  /\ mpc' = [mpc EXCEPT ![t] = "held"]
  /\ UNCHANGED <<std, hint, ovars, data, tries, tmp, incs>>

\* try_lock() called by the user and returning None.
TryLockNone(t) ==
  /\ mpc[t] = "idle" /\ guard[t] = "none"
  /\ ~CompareExchange(lock)
  /\ UNCHANGED vars

\* Mutant of GuardDrop: the guard goes away without storing false.
M_DropKeepsLock(t) ==
  /\ mpc[t] = "held"
  /\ guard' = [guard EXCEPT ![t] = "none"]
  /\ mpc' = [mpc EXCEPT ![t] = "idle"]
  /\ UNCHANGED <<std, hint, ovars, lock, data, tries, tmp, incs>>

\* MutexGuard::drop: `self.mutex.lock.store(false, Release)`.
GuardDrop(t) ==
  /\ mpc[t] = "held"
  /\ lock' = FALSE
  /\ guard' = [guard EXCEPT ![t] = "none"]
  /\ mpc' = [mpc EXCEPT ![t] = "idle"]
  /\ UNCHANGED <<std, hint, ovars, data, tries, tmp, incs>>

\* `*guard += 1`, first half: the read through MutexGuard::deref_mut.
GuardRead(t) ==
  /\ mpc[t] = "held"
  /\ incs[t] < MaxIncs
  /\ tmp' = [tmp EXCEPT ![t] = data]
  /\ mpc' = [mpc EXCEPT ![t] = "read"]
  /\ UNCHANGED <<std, hint, ovars, lock, data, guard, tries, incs>>

\* `*guard += 1`, second half: the write through MutexGuard::deref_mut.
GuardWrite(t) ==
  /\ mpc[t] = "read"
  /\ data' = tmp[t] + 1
  /\ incs' = [incs EXCEPT ![t] = incs[t] + 1]
  /\ mpc' = [mpc EXCEPT ![t] = "held"]
  /\ UNCHANGED <<std, hint, ovars, lock, guard, tries, tmp>>

\* lock_api::RawMutex for Mutex<()>. A thread that owes the matching unlock()
\* is at "raw_held"; its guard has been forgotten, so it holds none.

\* RawMutex::lock: `core::mem::forget(self.lock())`, entering Mutex::lock.
RawLockCall(t) ==
  /\ mpc[t] = "idle" /\ guard[t] = "none"
  /\ mpc' = [mpc EXCEPT ![t] = "raw_lock"]
  /\ tries' = [tries EXCEPT ![t] = 0]
  /\ UNCHANGED <<std, hint, ovars, lock, data, guard, tmp, incs>>

\* Mutex::lock's loop condition inside RawMutex::lock, try_lock() is Some.
RawLockTrySome(t) ==
  /\ mpc[t] = "raw_lock"
  /\ CompareExchange(lock)
  /\ lock' = TRUE
  /\ mpc' = [mpc EXCEPT ![t] = "raw_lock_tmp"]
  /\ UNCHANGED <<std, hint, ovars, data, guard, tries, tmp, incs>>

\* Mutex::lock's loop condition inside RawMutex::lock, try_lock() is None.
RawLockTryNone(t) ==
  /\ mpc[t] = "raw_lock"
  /\ ~CompareExchange(lock)
  /\ tries' = [tries EXCEPT ![t] = Backoff(tries[t])]
  /\ hint' = [hint EXCEPT ![t] = Hint(tries[t])]
  /\ UNCHANGED <<std, ovars, lock, data, mpc, guard, tmp, incs>>

\* Mutex::lock drops the temporary guard of its loop condition and returns
\* its guard, which RawMutex::lock forgets: RawMutex::lock returns.
RawLockReturn(t) ==
  /\ mpc[t] = "raw_lock_tmp"
  /\ lock' = FALSE
  /\ mpc' = [mpc EXCEPT ![t] = "raw_held"]
  /\ tries' = [tries EXCEPT ![t] = 0]
  /\ hint' = [hint EXCEPT ![t] = "none"]
  /\ UNCHANGED <<std, ovars, data, guard, tmp, incs>>

\* RawMutex::try_lock returning true:
\* `self.try_lock().map(core::mem::forget).is_some()`
RawTryLockSome(t) ==
  /\ mpc[t] = "idle" /\ guard[t] = "none"
  /\ CompareExchange(lock)
  /\ lock' = TRUE
  /\ mpc' = [mpc EXCEPT ![t] = "raw_held"]
  /\ UNCHANGED <<std, hint, ovars, data, guard, tries, tmp, incs>>

\* RawMutex::try_lock returning false.
RawTryLockNone(t) ==
  /\ mpc[t] = "idle" /\ guard[t] = "none"
  /\ ~CompareExchange(lock)
  /\ UNCHANGED vars

\* RawMutex::unlock: `self.lock.store(false, Release)`
RawUnlock(t) ==
  /\ mpc[t] = "raw_held"
  /\ lock' = FALSE
  /\ mpc' = [mpc EXCEPT ![t] = "idle"]
  /\ UNCHANGED <<std, hint, ovars, data, guard, tries, tmp, incs>>

\* ------------------------------------------------------------------- Once

\* once.rs:15-17
INCOMPLETE == 0
RUNNING == 1
COMPLETE == 2

\* The contents of the memory an action writes.
Uninit == <<"uninit", 0>>
Val(v) == <<"val", v>>
NoRes == <<"none", 0>>

\* Mutant of is_completed: a Once that is running counts as completed.
M_IsCompletedRunning(s) == s # INCOMPLETE

\* Once::is_completed: `self.state.load(Acquire) == Self::COMPLETE`
IsCompleted(s) == s = COMPLETE

\* Mutants of the compare-exchange: one that also takes over a running Once,
\* and an unconditional swap.
M_CasFromRunning(s) == s # COMPLETE
M_CasAlways(s) == TRUE

\* `compare_exchange(INCOMPLETE, RUNNING, AcqRel, Acquire).is_ok()`
OnceCompareExchange(s) == s = INCOMPLETE

\* Mutant of the wait loop's condition: the loop also goes on once the state is
\* COMPLETE.
M_WaitForever(s) == s # INCOMPLETE

\* Mutant of the wait loop: it waits on the wrong state.
M_WaitIncomplete(s) == s = INCOMPLETE

\* The wait loop's condition: `self.state.load(Acquire) == Self::RUNNING`
WaitCondition(s) == s = RUNNING

\* The record of is_completed()'s answers: "F" only false so far, "T" true
\* seen and no false since the first true, "TF" a false after a true.
ObsNext(log, b) ==
  IF b THEN (IF log = "TF" THEN "TF" ELSE "T")
       ELSE (IF log \in {"T", "TF"} THEN "TF" ELSE "F")

\* Once::new(), with the memory the action is to write still unwritten.
OnceNew ==
  /\ state = INCOMPLETE
  /\ slot = Uninit
  /\ pc = [t \in Threads |-> "idle"]
  /\ op = [t \in Threads |-> "none"]
  /\ arg = [t \in Threads |-> 0]
  /\ res = [t \in Threads |-> NoRes]
  /\ ran = <<>>
  /\ hist = <<>>
  /\ obsLog = "none"

\* call_once, first statement: `if self.is_completed() { return; }`, taken.
CallOnceFast(t) ==
  /\ pc[t] = "co_check"
  /\ IsCompleted(state)
  /\ obsLog' = ObsNext(obsLog, TRUE)
  /\ pc' = [pc EXCEPT ![t] = "co_done"]
  /\ UNCHANGED <<std, hint, mvars, state, slot, op, arg, res, ran, hist>>

\* call_once, first statement, not taken.
CallOnceSlow(t) ==
  /\ pc[t] = "co_check"
  /\ ~IsCompleted(state)
  /\ obsLog' = ObsNext(obsLog, FALSE)
  /\ pc' = [pc EXCEPT ![t] = "co_cas"]
  /\ UNCHANGED <<std, hint, mvars, state, slot, op, arg, res, ran, hist>>

\* The compare-exchange succeeds: this thread is to run its action.
CallOnceWin(t) ==
  /\ pc[t] = "co_cas"
  /\ OnceCompareExchange(state)
  /\ state' = RUNNING
  /\ hist' = Append(hist, <<state, RUNNING, t>>)
  /\ pc' = [pc EXCEPT ![t] = "co_run"]
  /\ UNCHANGED <<std, hint, mvars, slot, op, arg, res, ran, obsLog>>

\* The compare-exchange fails: this thread goes to the wait loop.
CallOnceLose(t) ==
  /\ pc[t] = "co_cas"
  /\ ~OnceCompareExchange(state)
  /\ pc' = [pc EXCEPT ![t] = "co_wait"]
  /\ UNCHANGED <<std, hint, mvars, state, slot, op, arg, res, ran, hist, obsLog>>

\* `self.state.store(Self::COMPLETE, Release)` after the action, and return.
CallOnceStore(t) ==
  /\ pc[t] = "co_store"
  /\ state' = COMPLETE
  /\ hist' = Append(hist, <<state, COMPLETE, t>>)
  /\ pc' = [pc EXCEPT ![t] = "co_done"]
  /\ UNCHANGED <<std, hint, mvars, slot, op, arg, res, ran, obsLog>>

\* What the body of call_once's wait loop executes: under
\* cfg(not(feature = "std")) spin_loop(), under cfg(feature = "std")
\* yield_now(), on every turn.
OnceHint == IF std THEN "yield" ELSE "spin"

\* One turn of the wait loop: the state is RUNNING, the loop body runs.
CallOnceSpin(t) ==
  /\ pc[t] = "co_wait"
  /\ WaitCondition(state)
  /\ hint' = [hint EXCEPT ![t] = OnceHint]
  /\ UNCHANGED <<std, mvars, ovars>>

\* The wait loop ends and call_once returns.
CallOnceWake(t) ==
  /\ pc[t] = "co_wait"
  /\ ~WaitCondition(state)
  /\ pc' = [pc EXCEPT ![t] = "co_done"]
  /\ hint' = [hint EXCEPT ![t] = "none"]
  /\ UNCHANGED <<std, mvars, state, slot, op, arg, res, ran, hist, obsLog>>

\* The steps of call_once that do not depend on the action.
CallOnceStep(t) ==
  \/ CallOnceFast(t)
  \/ CallOnceSlow(t)
  \/ CallOnceWin(t)
  \/ CallOnceLose(t)
  \/ CallOnceStore(t)
  \/ CallOnceSpin(t)
  \/ CallOnceWake(t)

\* A thread calls call_once with its own action, which writes the thread's
\* mark to the memory it initialises.
OnceCall(t) ==
  /\ pc[t] = "idle"
  /\ pc' = [pc EXCEPT ![t] = "co_check"]
  /\ op' = [op EXCEPT ![t] = "call_once"]
  /\ arg' = [arg EXCEPT ![t] = t]
  /\ UNCHANGED <<std, hint, mvars, state, slot, res, ran, hist, obsLog>>

\* `f();` in call_once: the winner's action runs.
OnceRunAction(t) ==
  /\ pc[t] = "co_run" /\ op[t] = "call_once"
  /\ ran' = Append(ran, t)
  /\ slot' = Val(arg[t])
  /\ pc' = [pc EXCEPT ![t] = "co_store"]
  /\ UNCHANGED <<std, hint, mvars, state, op, arg, res, hist, obsLog>>

\* call_once has returned to its caller.
OnceReturn(t) ==
  /\ pc[t] = "co_done" /\ op[t] = "call_once"
  /\ pc' = [pc EXCEPT ![t] = "idle"]
  /\ op' = [op EXCEPT ![t] = "none"]
  /\ res' = [res EXCEPT ![t] = <<"returned", 0>>]
  /\ UNCHANGED <<std, hint, mvars, state, slot, arg, ran, hist, obsLog>>

\* A thread calls is_completed().
OnceIsCompleted(t) ==
  /\ pc[t] = "idle"
  /\ obsLog' = ObsNext(obsLog, IsCompleted(state))
  /\ res' = [res EXCEPT ![t] = <<"is_completed", IF IsCompleted(state) THEN 1 ELSE 0>>]
  /\ UNCHANGED <<std, hint, mvars, state, slot, pc, op, arg, ran, hist>>

InitOnce ==
  /\ std \in BOOLEAN
  /\ MutexNew
  /\ OnceNew

NextOnce ==
  \E t \in Threads :
    \/ OnceCall(t)
    \/ CallOnceStep(t)
    \/ OnceRunAction(t)
    \/ OnceReturn(t)
    \/ OnceIsCompleted(t)

SpecOnce == InitOnce /\ [][NextOnce]_vars

\* NextOnce under fair scheduling: a thread inside call_once that can take a
\* step eventually takes one, and the action of the winner terminates. A turn
\* of the wait loop leaves the state of the Once as it is.
SpecOnceFair ==
  /\ InitOnce
  /\ [][NextOnce]_vars
  /\ \A t \in Threads : WF_vars(CallOnceStep(t) \/ OnceRunAction(t) \/ OnceReturn(t))

\* Mutant of a panicking action: the Once is put back to INCOMPLETE, so that a
\* later caller may run its own action.
M_PanicResets(t) ==
  /\ pc[t] = "co_run" /\ op[t] = "call_once"
  /\ ran' = Append(ran, t)
  /\ state' = INCOMPLETE
  /\ pc' = [pc EXCEPT ![t] = "panicked"]
  /\ UNCHANGED <<std, hint, mvars, slot, op, arg, res, hist, obsLog>>

\* `f();` in call_once when the action panics: the panic unwinds out of
\* call_once, which has no handler, and the store of COMPLETE is never reached.
OncePanicAction(t) ==
  /\ pc[t] = "co_run" /\ op[t] = "call_once"
  /\ ran' = Append(ran, t)
  /\ pc' = [pc EXCEPT ![t] = "panicked"]
  /\ UNCHANGED <<std, hint, mvars, state, slot, op, arg, res, hist, obsLog>>

\* The panic has left call_once; the thread's caller catches it and goes on.
OnceUnwind(t) ==
  /\ pc[t] = "panicked"
  /\ pc' = [pc EXCEPT ![t] = "idle"]
  /\ op' = [op EXCEPT ![t] = "none"]
  /\ res' = [res EXCEPT ![t] = <<"panicked", 0>>]
  /\ UNCHANGED <<std, hint, mvars, state, slot, arg, ran, hist, obsLog>>

\* A Once whose actions may panic.
NextOncePanic ==
  \E t \in Threads :
    \/ OnceCall(t)
    \/ CallOnceStep(t)
    \/ OnceRunAction(t)
    \/ OncePanicAction(t)
    \/ OnceUnwind(t)
    \/ OnceReturn(t)
    \/ OnceIsCompleted(t)

SpecOncePanic == InitOnce /\ [][NextOncePanic]_vars

\* --------------------------------------------------------------- OnceLock

\* The slot of a cell that has been dropped: Torn(v) when the drop tore down
\* the value v it read in the slot, Gone when it tore down nothing.
Torn(v) == <<"torn", v>>
Gone == <<"gone", 0>>
Ended == slot[1] \in {"torn", "gone"}

\* No other thread is inside an operation on the cell: what `&mut self` and
\* `self` demand of a cell that still exists.
Exclusive == ~Ended /\ \A u \in Threads : pc[u] = "idle"

\* No thread holds the cell exclusively: what `&self` demands.
Shared == ~Ended /\ \A u \in Threads : pc[u] \notin {"take_read", "ii_read", "ii_drop"}

\* What a read of the slot as an initialised T yields: the value, or, when the
\* slot holds none (undefined behaviour), whatever the memory happens to hold.
SlotRead == IF slot[1] = "val" THEN {slot[2]} ELSE 0..NThreads

\* get_or_init(f), with f returning the caller's marker:
\* `if !self.is_initialized() { self.initialize(f); }`
GetOrInitCall(t) ==
  /\ pc[t] = "idle" /\ Shared
  /\ op' = [op EXCEPT ![t] = "get_or_init"]
  /\ arg' = [arg EXCEPT ![t] = t]
  /\ obsLog' = ObsNext(obsLog, IsCompleted(state))
  /\ pc' = [pc EXCEPT ![t] = IF IsCompleted(state) THEN "co_done" ELSE "co_check"]
  /\ UNCHANGED <<std, hint, mvars, state, slot, res, ran, hist>>

\* The action initialize() hands to call_once: `(*slot.get()).write(f())`.
OnceLockRunClosure(t) ==
  /\ pc[t] = "co_run" /\ op[t] \in {"get_or_init", "set"}
  /\ ran' = Append(ran, t)
  /\ slot' = Val(arg[t])
  /\ pc' = [pc EXCEPT ![t] = "co_store"]
  /\ UNCHANGED <<std, hint, mvars, state, op, arg, res, hist, obsLog>>

\* get_or_init's last statement: `unsafe { self.get_unchecked() }`
GetOrInitReturn(t) ==
  /\ pc[t] = "co_done" /\ op[t] = "get_or_init"
  /\ \E v \in SlotRead : res' = [res EXCEPT ![t] = <<"ref", v>>]
  /\ pc' = [pc EXCEPT ![t] = "idle"]
  /\ op' = [op EXCEPT ![t] = "none"]
  /\ UNCHANGED <<std, hint, mvars, state, slot, arg, ran, hist, obsLog>>

\* Mutant of set(): the is_initialized() check is left out.
M_SetNoCheck(t) ==
  /\ pc[t] = "idle" /\ Shared
  /\ arg' = [arg EXCEPT ![t] = t]
  /\ pc' = [pc EXCEPT ![t] = "co_check"]
  /\ op' = [op EXCEPT ![t] = "set"]
  /\ UNCHANGED <<std, hint, mvars, state, slot, res, ran, hist, obsLog>>

\* set(data): `if self.is_initialized() { return Err(data); }`, else on to
\* `self.initialize(|| data)`.
SetCall(t) ==
  /\ pc[t] = "idle" /\ Shared
  /\ obsLog' = ObsNext(obsLog, IsCompleted(state))
  /\ arg' = [arg EXCEPT ![t] = t]
  /\ IF IsCompleted(state)
       THEN /\ res' = [res EXCEPT ![t] = <<"Err", t>>]
            /\ UNCHANGED <<pc, op>>
       ELSE /\ pc' = [pc EXCEPT ![t] = "co_check"]
            /\ op' = [op EXCEPT ![t] = "set"]
            /\ UNCHANGED res
  /\ UNCHANGED <<std, hint, mvars, state, slot, ran, hist>>

\* set's last statement, after initialize() has returned: `Ok(())`
SetReturn(t) ==
  /\ pc[t] = "co_done" /\ op[t] = "set"
  /\ res' = [res EXCEPT ![t] = <<"Ok", arg[t]>>]
  /\ pc' = [pc EXCEPT ![t] = "idle"]
  /\ op' = [op EXCEPT ![t] = "none"]
  /\ UNCHANGED <<std, hint, mvars, state, slot, arg, ran, hist, obsLog>>

\* get()
Get(t) ==
  /\ pc[t] = "idle" /\ Shared
  /\ obsLog' = ObsNext(obsLog, IsCompleted(state))
  /\ IF IsCompleted(state)
       THEN \E v \in SlotRead : res' = [res EXCEPT ![t] = <<"Some", v>>]
       ELSE res' = [res EXCEPT ![t] = <<"None", 0>>]
  /\ UNCHANGED <<std, hint, mvars, state, slot, pc, op, arg, ran, hist>>

\* get_mut(), on an exclusively borrowed cell
GetMut(t) ==
  /\ Exclusive
  /\ obsLog' = ObsNext(obsLog, IsCompleted(state))
  /\ IF IsCompleted(state)
       THEN \E v \in SlotRead : res' = [res EXCEPT ![t] = <<"SomeMut", v>>]
       ELSE res' = [res EXCEPT ![t] = <<"None", 0>>]
  /\ UNCHANGED <<std, hint, mvars, state, slot, pc, op, arg, ran, hist>>

\* Mutant of take(): the Once is left as it is.
M_TakeKeepsOnce(t) ==
  /\ Exclusive
  /\ IsCompleted(state)
  /\ pc' = [pc EXCEPT ![t] = "take_read"]
  /\ UNCHANGED <<std, hint, mvars, state, slot, op, arg, res, ran, hist, obsLog>>

\* take(), on an exclusively borrowed cell, up to `self.once = Once::new()`:
\* `if !self.is_initialized() { return None; }` (recorded as "TakenNone"),
\* else the Once is replaced.
TakeReset(t) ==
  /\ Exclusive
  /\ IF ~IsCompleted(state)
       THEN /\ res' = [res EXCEPT ![t] = <<"TakenNone", 0>>]
            /\ obsLog' = ObsNext(obsLog, FALSE)
            /\ UNCHANGED <<state, pc, ran, hist>>
       ELSE /\ state' = INCOMPLETE
            /\ ran' = <<>>
            /\ hist' = <<>>
            /\ obsLog' = "none"
            /\ pc' = [pc EXCEPT ![t] = "take_read"]
            /\ UNCHANGED res
  /\ UNCHANGED <<std, hint, mvars, slot, op, arg>>

\* take()'s last statement: `Some((*self.data.get()).assume_init_read())`,
\* which moves the value out of the slot.
TakeRead(t) ==
  /\ pc[t] = "take_read"
  /\ \E v \in SlotRead : res' = [res EXCEPT ![t] = <<"Taken", v>>]
  /\ slot' = Uninit
  /\ pc' = [pc EXCEPT ![t] = "idle"]
  /\ UNCHANGED <<std, hint, mvars, state, op, arg, ran, hist, obsLog>>

\* Drop for OnceLock: `if self.is_initialized() { assume_init_drop }`, after
\* which the cell is no more.
DropBody == 
  IF IsCompleted(state)
    THEN \E v \in SlotRead : slot' = Torn(v)
    ELSE slot' = Gone

\* The owner lets the cell go out of scope.
Drop(t) ==
  /\ Exclusive
  /\ DropBody
  /\ UNCHANGED <<std, hint, mvars, state, pc, op, arg, res, ran, hist, obsLog>>

\* into_inner(mut self), `self.take()` up to `self.once = Once::new()`; when
\* the cell is not initialized take returns None (recorded as "IntoNone").
IntoInnerCall(t) ==
  /\ Exclusive
  /\ IF ~IsCompleted(state)
       THEN /\ res' = [res EXCEPT ![t] = <<"IntoNone", 0>>]
            /\ obsLog' = ObsNext(obsLog, FALSE)
            /\ pc' = [pc EXCEPT ![t] = "ii_drop"]
            /\ UNCHANGED <<state, ran, hist>>
       ELSE /\ state' = INCOMPLETE
            /\ ran' = <<>>
            /\ hist' = <<>>
            /\ obsLog' = "none"
            /\ pc' = [pc EXCEPT ![t] = "ii_read"]
            /\ UNCHANGED res
  /\ UNCHANGED <<std, hint, mvars, slot, op, arg>>

\* into_inner, take()'s last statement: the value is moved out of the slot.
IntoInnerRead(t) ==
  /\ pc[t] = "ii_read"
  /\ \E v \in SlotRead : res' = [res EXCEPT ![t] = <<"Taken", v>>]
  /\ slot' = Uninit
  /\ pc' = [pc EXCEPT ![t] = "ii_drop"]
  /\ UNCHANGED <<std, hint, mvars, state, op, arg, ran, hist, obsLog>>

\* into_inner returns: `self` goes out of scope and Drop::drop runs.
IntoInnerDrop(t) ==
  /\ pc[t] = "ii_drop"
  /\ DropBody
  /\ pc' = [pc EXCEPT ![t] = "idle"]
  /\ UNCHANGED <<std, hint, mvars, state, op, arg, res, ran, hist, obsLog>>

\* OnceLock::new() shared by the threads. once_lock.rs has no cfg, and in
\* call_once the build configuration only selects the hint executed in the
\* wait loop (once.rs:53-57), which no operation of the cell reads: one
\* configuration stands for both.
InitOnceLock ==
  /\ std = FALSE
  /\ MutexNew
  /\ OnceNew

\* Threads race get_or_init on one cell, and read it with get.
NextGetOrInit ==
  \E t \in Threads :
    \/ GetOrInitCall(t)
    \/ CallOnceStep(t)
    \/ OnceLockRunClosure(t)
    \/ GetOrInitReturn(t)
    \/ Get(t)

SpecGetOrInit == InitOnceLock /\ [][NextGetOrInit]_vars

\* Every operation of the cell.
NextOnceLock ==
  \E t \in Threads :
    \/ GetOrInitCall(t)
    \/ SetCall(t)
    \/ CallOnceStep(t)
    \/ OnceLockRunClosure(t)
    \/ GetOrInitReturn(t)
    \/ SetReturn(t)
    \/ Get(t)
    \/ GetMut(t)
    \/ TakeReset(t)
    \/ TakeRead(t)

SpecOnceLock == InitOnceLock /\ [][NextOnceLock]_vars

\* Threads set, read and take the cell: the rounds of set and take.
NextSetTake ==
  \E t \in Threads :
    \/ SetCall(t)
    \/ CallOnceStep(t)
    \/ OnceLockRunClosure(t)
    \/ SetReturn(t)
    \/ Get(t)
    \/ TakeReset(t)
    \/ TakeRead(t)

SpecSetTake == InitOnceLock /\ [][NextSetTake]_vars

\* The life of a cell: set, get_or_init, take and into_inner, up to its drop.
NextTeardown ==
  \E t \in Threads :
    \/ GetOrInitCall(t)
    \/ SetCall(t)
    \/ CallOnceStep(t)
    \/ OnceLockRunClosure(t)
    \/ GetOrInitReturn(t)
    \/ SetReturn(t)
    \/ TakeReset(t)
    \/ TakeRead(t)
    \/ IntoInnerCall(t)
    \/ IntoInnerRead(t)
    \/ IntoInnerDrop(t)
    \/ Drop(t)

SpecTeardown == InitOnceLock /\ [][NextTeardown]_vars

\* --------------------------------------------------------------- LazyLock

\* The initializer stored in the union, and the union after
\* `ManuallyDrop::take(&mut data.f)`.
StoredF == <<"f", 0>>
MovedF == <<"moved", 0>>

\* The value the k-th invocation of the initializer produces.
Produced(k) == k

\* LazyLock::new(f)
LazyNew ==
  /\ state = INCOMPLETE
  /\ slot = StoredF
  /\ pc = [t \in Threads |-> "idle"]
  /\ op = [t \in Threads |-> "none"]
  /\ arg = [t \in Threads |-> 0]
  /\ res = [t \in Threads |-> NoRes]
  /\ ran = <<>>
  /\ hist = <<>>
  /\ obsLog = "none"

\* LazyLock::force(this): `this.once.call_once(|| ..)`
ForceCall(t) ==
  /\ pc[t] = "idle"
  /\ pc' = [pc EXCEPT ![t] = "co_check"]
  /\ op' = [op EXCEPT ![t] = "force"]
  /\ UNCHANGED <<std, hint, mvars, state, slot, arg, res, ran, hist, obsLog>>

\* Deref::deref: `Self::force(self)`
LazyDeref(t) ==
  /\ pc[t] = "idle"
  /\ pc' = [pc EXCEPT ![t] = "co_check"]
  /\ op' = [op EXCEPT ![t] = "deref"]
  /\ UNCHANGED <<std, hint, mvars, state, slot, arg, res, ran, hist, obsLog>>

\* The action of force, first half: `ManuallyDrop::take(&mut data.f)`
LazyTakeF(t) ==
  /\ pc[t] = "co_run" /\ op[t] \in {"force", "deref"}
  /\ slot' = MovedF
  /\ pc' = [pc EXCEPT ![t] = "lz_call"]
  /\ UNCHANGED <<std, hint, mvars, state, op, arg, res, ran, hist, obsLog>>

\* The action of force, second half: `let value = f();` and
\* `data.value = ManuallyDrop::new(value)`
LazyRunF(t) ==
  /\ pc[t] = "lz_call"
  /\ ran' = Append(ran, t)
  /\ slot' = Val(Produced(Len(ran) + 1))
  /\ pc' = [pc EXCEPT ![t] = "co_store"]
  /\ UNCHANGED <<std, hint, mvars, state, op, arg, res, hist, obsLog>>

\* force's last statement: `unsafe { &(*this.data.get()).value }`
ForceReturn(t) ==
  /\ pc[t] = "co_done" /\ op[t] \in {"force", "deref"}
  /\ \E v \in SlotRead : res' = [res EXCEPT ![t] = <<"ref", v>>]
  /\ pc' = [pc EXCEPT ![t] = "idle"]
  /\ op' = [op EXCEPT ![t] = "none"]
  /\ UNCHANGED <<std, hint, mvars, state, slot, arg, ran, hist, obsLog>>

\* LazyLock::get(this)
LazyGet(t) ==
  /\ pc[t] = "idle"
  /\ obsLog' = ObsNext(obsLog, IsCompleted(state))
  /\ IF IsCompleted(state)
       THEN \E v \in SlotRead : res' = [res EXCEPT ![t] = <<"Some", v>>]
       ELSE res' = [res EXCEPT ![t] = <<"None", 0>>]
  /\ UNCHANGED <<std, hint, mvars, state, slot, pc, op, arg, ran, hist>>

InitLazy ==
  /\ std \in BOOLEAN
  /\ MutexNew
  /\ LazyNew

NextLazy ==
  \E t \in Threads :
    \/ ForceCall(t)
    \/ LazyDeref(t)
    \/ CallOnceStep(t)
    \/ LazyTakeF(t)
    \/ LazyRunF(t)
    \/ ForceReturn(t)
    \/ LazyGet(t)

SpecLazy == InitLazy /\ [][NextLazy]_vars

\* --------------------------------------------------- Mutex specifications

InitMutex ==
  /\ std \in BOOLEAN
  /\ MutexNew
  /\ OnceNew

\* Threads acquire through any mix of lock(), lock_weak() and try_lock().
NextMutex ==
  \E t \in Threads :
    \/ LockCall(t)
    \/ LockTrySome(t)
    \/ LockTryNone(t)
    \/ LockReturn(t)
    \/ LockWeakCall(t)
    \/ LockWeakSome(t)
    \/ LockWeakFail(t)
    \/ TryLockSome(t)
    \/ TryLockNone(t)
    \/ GuardDrop(t)

SpecMutex == InitMutex /\ [][NextMutex]_vars

\* NextMutex under fair scheduling: a held guard is eventually dropped and a
\* loop that has acquired eventually returns (weak fairness); a waiting caller
\* that finds the flag clear again and again eventually wins its
\* compare-exchange (strong fairness: no starvation by re-acquiring threads, no
\* endless spurious failure of compare_exchange_weak). The two actions under
\* each fairness condition are never enabled together for one thread.
SpecMutexFair ==
  /\ InitMutex
  /\ [][NextMutex]_vars
  /\ \A t \in Threads :
       /\ WF_vars(GuardDrop(t) \/ LockReturn(t))
       /\ SF_vars(LockTrySome(t) \/ LockWeakSome(t))

\* A thread that still has increments to do calls lock().
CounterLockCall(t) ==
  /\ incs[t] < MaxIncs
  /\ LockCall(t)

\* Threads increment the protected integer, each step under a guard from lock().
NextCounter ==
  \E t \in Threads :
    \/ CounterLockCall(t)
    \/ LockTrySome(t)
    \/ LockTryNone(t)
    \/ LockReturn(t)
    \/ GuardRead(t)
    \/ GuardWrite(t)
    \/ GuardDrop(t)

SpecCounter == InitMutex /\ [][NextCounter]_vars

\* Threads use the Mutex<()> through lock_api::RawMutex.
NextRaw ==
  \E t \in Threads :
    \/ RawLockCall(t)
    \/ RawLockTrySome(t)
    \/ RawLockTryNone(t)
    \/ RawLockReturn(t)
    \/ RawTryLockSome(t)
    \/ RawTryLockNone(t)
    \/ RawUnlock(t)

SpecRaw == InitMutex /\ [][NextRaw]_vars

\* replace(data): `core::mem::replace(&mut *self.lock(), data)`, entering
\* lock(). Each thread calls replace once, thread t supplying the value t.
ReplaceCall(t) ==
  /\ incs[t] = 0
  /\ LockCall(t)

\* core::mem::replace through the guard's deref_mut, first half: the old
\* value is read out.
ReplaceRead(t) ==
  /\ mpc[t] = "held" /\ guard[t] = "lock"
  /\ incs[t] = 0
  /\ tmp' = [tmp EXCEPT ![t] = data]
  /\ mpc' = [mpc EXCEPT ![t] = "swap"]
  /\ UNCHANGED <<std, hint, ovars, lock, data, guard, tries, incs>>

\* core::mem::replace, second half: the supplied value is written; the old
\* value in tmp is what replace returns once the guard is dropped.
ReplaceWrite(t) ==
  /\ mpc[t] = "swap"
  /\ data' = t
  /\ incs' = [incs EXCEPT ![t] = incs[t] + 1]
  /\ mpc' = [mpc EXCEPT ![t] = "held"]
  /\ UNCHANGED <<std, hint, ovars, lock, guard, tries, tmp>>

\* The guard of a replace is a temporary of its statement: it is dropped
\* once the swap is done, and replace returns.
ReplaceDrop(t) ==
  /\ incs[t] = 1
  /\ GuardDrop(t)

\* Threads call replace concurrently, with distinct values.
NextReplace ==
  \E t \in Threads :
    \/ ReplaceCall(t)
    \/ LockTrySome(t)
    \/ LockTryNone(t)
    \/ LockReturn(t)
    \/ ReplaceRead(t)
    \/ ReplaceWrite(t)
    \/ ReplaceDrop(t)

SpecReplace == InitMutex /\ [][NextReplace]_vars

\* ----------------------------------------------------------- Mutex claims

\* The threads that hold a live MutexGuard (returned and not yet dropped).
LiveGuards == {t \in Threads : guard[t] # "none"}

RECURSIVE SumTo(_, _)
SumTo(f, n) == IF n = 0 THEN 0 ELSE f[n] + SumTo(f, n - 1)

\* C1: at most one MutexGuard of the Mutex is live in any reachable state,
\* whichever mix of lock(), lock_weak() and try_lock() the threads use.
C1_MutualExclusion == Cardinality(LiveGuards) <= 1

\* C2: once every thread has finished its increments, each done under a guard
\* from lock(), the stored value is the total number of increments.
C2_NoLostUpdates ==
  (\A t \in Threads : mpc[t] = "idle" /\ incs[t] = MaxIncs)
    => data = SumTo(incs, NThreads)

\* C3: try_lock() hands out a guard only in a state where no guard is live
\* (it returns None whenever one is), and with no guard live and no
\* acquisition under way the flag is clear, so that try_lock() acquires.
C3_TryLockContract ==
  [][ /\ \A t \in Threads :
          (guard[t] = "none" /\ guard'[t] = "try_lock") => LiveGuards = {}
      /\ (LiveGuards = {} /\ \A t \in Threads : mpc[t] # "lock_tmp")
            => CompareExchange(lock) ]_vars

\* ------------------------------------------------------------ Once claims

\* A call_once call of thread t has returned, or is returning.
Returned(t) == pc[t] = "co_done" \/ res[t] = <<"returned", 0>>

\* C4: of the actions handed to concurrent call_once calls on one Once, never
\* more than one is executed, and once any call has returned exactly one has
\* been.
C4_ExactlyOnce ==
  /\ Len(ran) <= 1
  /\ (\E t \in Threads : Returned(t)) => Len(ran) = 1

\* All threads called concurrently: one has run its action and is about to
\* store COMPLETE, all the others are in the wait loop.
C4_Witness ==
  /\ Len(ran) = 1
  /\ pc[ran[1]] = "co_store"
  /\ \A t \in Threads \ {ran[1]} : pc[t] = "co_wait"

\* C5: a call_once call returns only with the state COMPLETE; is_completed()
\* is false while the action is executing and true once any call has
\* returned; the action's write is in place whenever COMPLETE is observed.
C5_CompletionBeforeReturn ==
  /\ \A t \in Threads : Returned(t) => IsCompleted(state)
  /\ \A t \in Threads : pc[t] \in {"co_run", "co_store"} => ~IsCompleted(state)
  /\ IsCompleted(state) => (Len(ran) = 1 /\ slot = Val(ran[1]))

\* The winner has returned while a loser is still in the wait loop.
C5_Witness ==
  \E t, u \in Threads :
    /\ Len(ran) = 1 /\ ran[1] = t /\ Returned(t)
    /\ pc[u] = "co_wait"
    /\ IsCompleted(state)

\* C10: the state is one of the three values; the only stores to it are
\* INCOMPLETE -> RUNNING and then RUNNING -> COMPLETE, each at most once and
\* both by the same thread; is_completed() never answers false after true.
C10_StateMachine ==
  /\ state \in {INCOMPLETE, RUNNING, COMPLETE}
  /\ Len(hist) <= 2
  /\ Len(hist) >= 1 => (hist[1][1] = INCOMPLETE /\ hist[1][2] = RUNNING)
  /\ Len(hist) = 2 =>
       (hist[2][1] = RUNNING /\ hist[2][2] = COMPLETE /\ hist[2][3] = hist[1][3])
  /\ state = (IF hist = <<>> THEN INCOMPLETE ELSE hist[Len(hist)][2])
  /\ obsLog # "TF"

\* Both transitions have happened and is_completed() has answered true.
C10_Witness == Len(hist) = 2 /\ obsLog = "T" /\ state = COMPLETE

\* ----------------------------------------------- OnceLock, LazyLock claims

\* C6: with every thread calling get_or_init with its own marker, at most one
\* closure is invoked and at most one marker written, the slot never holds
\* anything but that marker, and every get_or_init and every get that
\* yields a value yields that marker; once a get_or_init has returned, the
\* cell is initialised with it.
C6_SingleEvaluation ==
  /\ Len(ran) <= 1
  /\ slot # Uninit => (Len(ran) = 1 /\ slot = Val(ran[1]))
  /\ \A t \in Threads :
       res[t][1] \in {"ref", "Some"} =>
         /\ Len(ran) = 1 /\ res[t][2] = ran[1]
         /\ IsCompleted(state) /\ slot = Val(ran[1])

\* Every thread raced get_or_init and has returned; all hold the one marker.
C6_Witness ==
  /\ Len(ran) = 1
  /\ \A t \in Threads : res[t] = <<"ref", ran[1]>> /\ pc[t] = "idle"

\* C7: when set(v) is about to return Ok, the cell holds v.
C7_SetOkHoldsValue ==
  \A t \in Threads :
    (op[t] = "set" /\ pc[t] = "co_done") =>
      (IsCompleted(state) /\ slot = Val(arg[t]))

\* C8: the initializer of a LazyLock is invoked at most once, whatever the
\* number of threads in force or deref, and every force that has returned
\* yielded the value of that one invocation.
C8_LazySingleInit ==
  /\ Len(ran) <= 1
  /\ \A t \in Threads :
       (pc[t] = "co_done" \/ res[t][1] = "ref") => Len(ran) = 1
  /\ \A t \in Threads : res[t][1] = "ref" => res[t][2] = Produced(1)

\* Every thread has forced the value, one of them by running the initializer.
C8_Witness ==
  /\ Len(ran) = 1
  /\ \A t \in Threads : res[t] = <<"ref", Produced(1)>>

\* C9 as stated: the slot holds a value exactly when the Once is COMPLETE.
C9_StorageIff == (slot # Uninit) <=> IsCompleted(state)

\* C9 as amended: a COMPLETE Once implies an initialised slot; the slot is
\* initialised only when the Once is COMPLETE, or RUNNING with the winning
\* initializer between its write of the slot and its store of COMPLETE, or
\* INCOMPLETE with take between replacing the Once and moving the value out.
C9_StorageInv ==
  /\ IsCompleted(state) => slot[1] = "val"
  /\ slot # Uninit =>
       \/ IsCompleted(state)
       \/ state = RUNNING /\ \E t \in Threads : pc[t] = "co_store"
       \/ state = INCOMPLETE /\ \E t \in Threads : pc[t] = "take_read"

\* The cell was emptied by take and has been initialised again.
C9_Witness ==
  /\ IsCompleted(state) /\ slot[1] = "val"
  /\ \E t \in Threads : res[t][1] = "Taken"


\* ------------------------------------------------------ claims C11 to C20

\* The winning action has panicked: the state is RUNNING and no thread is
\* about to run its action or to store COMPLETE.
Poisoned ==
  /\ state = RUNNING
  /\ \A t \in Threads : pc[t] \notin {"co_run", "co_store"}

\* No call_once call on the current Once has returned or is returning.
NoneReturned == \A t \in Threads : ~Returned(t)

\* C11: once the winning action has panicked, the Once stays RUNNING for ever,
\* the panicked action stays the only one ever invoked, is_completed() is
\* false, and no call_once call, already waiting or made later, returns.
C11_PanicNotRecovered ==
  [][ /\ (\E t \in Threads : pc'[t] = "panicked") => Poisoned'
      /\ Poisoned => (Poisoned' /\ ran' = ran)
      /\ Poisoned' => /\ Len(ran') = 1
                      /\ ~IsCompleted(state')
                      /\ NoneReturned'
                      /\ obsLog' \in {"none", "F"} ]_vars

\* After the panic, the panicked thread has been unwound and every thread is
\* in the wait loop of a call_once call: the other threads, and the panicked
\* one in a later call.
C11_Witness ==
  /\ Poisoned
  /\ \A t \in Threads : pc[t] = "co_wait"
  /\ \E t \in Threads : res[t] = <<"panicked", 0>>


\* Thread t's last result changes in this step to one tagged k.
NewRes(t, k) == res'[t] # res[t] /\ res'[t][1] = k

\* C12: take() on an initialised cell returns the value held and leaves the
\* cell as OnceLock::new() makes it (Once INCOMPLETE, slot uninitialised), in
\* every round; take() on an empty cell returns None and leaves it empty. On
\* the cell so left, get() returns None, and Some(v) only of the value set
\* since.
C12_TakeResets ==
  [][ \A t \in Threads :
        /\ (pc[t] = "take_read" /\ pc'[t] # "take_read") =>
             /\ slot[1] = "val" /\ res'[t] = <<"Taken", slot[2]>>
             /\ state' = INCOMPLETE /\ slot' = Uninit
        /\ (pc[t] # "take_read" /\ pc'[t] = "take_read") =>
             (IsCompleted(state) /\ slot[1] = "val")
        /\ NewRes(t, "TakenNone") =>
             /\ state = INCOMPLETE /\ slot = Uninit
             /\ state' = INCOMPLETE /\ slot' = Uninit
        /\ NewRes(t, "None") => ~IsCompleted(state)
        /\ (NewRes(t, "Some") \/ NewRes(t, "SomeMut")) =>
             (IsCompleted(state) /\ slot = Val(res'[t][2])) ]_vars

\* Second round: thread 1's value was set and taken, and the cell, emptied,
\* accepted thread 2's set and holds its value.
C12_Witness ==
  \E t, u \in Threads :
    /\ t # u
    /\ res[t] = <<"Taken", t>>
    /\ res[u] = <<"Ok", u>>
    /\ IsCompleted(state) /\ slot = Val(u)

\* C13: set on an initialised cell returns Err with the value it was given
\* and changes neither the slot nor the Once state; set goes on to
\* initialize() only on a cell it found not initialised.
C13_SetErrUnchanged ==
  [][ \A t \in Threads :
        /\ NewRes(t, "Err") =>
             /\ IsCompleted(state)
             /\ res'[t] = <<"Err", arg'[t]>>
             /\ state' = state /\ slot' = slot /\ pc' = pc
        /\ (pc[t] = "idle" /\ pc'[t] = "co_check" /\ op'[t] = "set") =>
             ~IsCompleted(state) ]_vars

\* set(v) has failed on a cell that holds another thread's value.
C13_Witness ==
  \E t, u \in Threads :
    /\ t # u
    /\ res[t] = <<"Err", t>>
    /\ IsCompleted(state) /\ slot = Val(u)


\* C14: LazyLock::get changes nothing but its caller's result: the Once state,
\* the slot, the initializer's invocations and every thread's position stay
\* as they are. It returns None exactly when the Once is not COMPLETE, also
\* while another thread is running the initializer, and otherwise the value
\* the initializer produced.
C14_LazyGetPassive ==
  [][ \A t \in Threads :
        (NewRes(t, "None") \/ NewRes(t, "Some")) =>
          /\ state' = state /\ slot' = slot /\ ran' = ran /\ pc' = pc
          /\ pc[t] = "idle"
          /\ (res'[t][1] = "None") <=> ~IsCompleted(state)
          /\ (res'[t][1] = "Some") =>
               (Len(ran) = 1 /\ res'[t] = <<"Some", Produced(1)>>) ]_vars

\* get has returned None while another thread is between taking the
\* initializer out of the slot and writing the value.
C14_Witness ==
  \E t, u \in Threads :
    /\ res[t] = <<"None", 0>>
    /\ pc[u] = "lz_call" /\ slot = MovedF /\ state = RUNNING


\* C15: lock() and lock_weak() are interchangeable for the caller; in
\* particular, from the return of either until its guard is dropped the lock
\* flag is true.
C15_LockWeakEquivalent ==
  \A t \in Threads : guard[t] \in {"lock", "lock_weak"} => lock = TRUE


\* The threads that have locked through RawMutex and not yet unlocked.
RawHolders == {t \in Threads : mpc[t] = "raw_held"}

\* C16: from the return of RawMutex::lock() or of a successful
\* RawMutex::try_lock() until the matching unlock() the flag is true, and in
\* that interval no other RawMutex::try_lock() succeeds and no other
\* RawMutex::lock() returns: at most one thread is between lock and unlock.
C16_RawLockHeld ==
  /\ RawHolders # {} => lock = TRUE
  /\ Cardinality(RawHolders) <= 1


\* C17: under fair scheduling, with every guard eventually dropped and no
\* starvation, a call to lock() or lock_weak() eventually returns a guard to
\* its caller; the only way out of either call is the return of a guard.
C17_LockProgress ==
  /\ \A t \in Threads :
       (mpc[t] \in {"lock", "lock_weak"}) ~> (mpc[t] = "held" /\ guard[t] \in {"lock", "lock_weak"})
  /\ [][ \A t \in Threads :
           mpc[t] \in {"lock", "lock_tmp", "lock_weak"}
             => mpc'[t] \in {"lock", "lock_tmp", "lock_weak", "held"} ]_vars

\* A lock() call that found the flag set, went round its loop body and then
\* acquired.
C17_Witness ==
  \E t \in Threads : mpc[t] = "lock_tmp" /\ tries[t] > 0


\* A take or into_inner by thread t moves the value out of the slot.
HandsOver(t) == pc[t] \in {"take_read", "ii_read"} /\ pc'[t] # pc[t]

\* C18: a value written into the slot leaves it in exactly one of two ways:
\* handed to the caller of take/into_inner, the slot left empty, or torn down
\* by the drop of the cell; what is handed or torn down is the value the slot
\* holds, a write goes into an empty slot only, the drop of an empty cell
\* tears down nothing, and the drop is the last event of the cell.
C18_TeardownOnce ==
  [][ /\ ~Ended
      /\ (slot[1] = "val" /\ slot' # slot) =>
           \/ slot' = Uninit /\ \E t \in Threads : HandsOver(t) /\ res'[t] = <<"Taken", slot[2]>>
           \/ slot' = Torn(slot[2]) /\ \A t \in Threads : ~HandsOver(t)
      /\ (slot[1] = "uninit" /\ slot' # slot) => slot'[1] \in {"val", "gone"}
      /\ \A t \in Threads :
           HandsOver(t) => slot[1] = "val" /\ slot' = Uninit /\ res'[t] = <<"Taken", slot[2]>>
      /\ Ended' => (slot[1] = "val" <=> slot'[1] = "torn") ]_vars

\* The cell was written twice: one value was handed out by take, the other
\* torn down by the drop.
C18_Witness ==
  \E t \in Threads : slot[1] = "torn" /\ res[t][1] = "Taken" /\ res[t][2] # slot[2]


\* Every thread's replace has returned.
AllReplaced == \A t \in Threads : incs[t] = 1 /\ mpc[t] = "idle"

\* C19: replace is an atomic swap under the lock. Between a replace's read
\* of the old value and its write no other write intervenes, so it returns the
\* value stored immediately before its own write; once every replace has
\* returned, the returned values and the stored value are the initial 0 and
\* the supplied values, each once, and the mutex is unlocked.
C19_ReplaceAtomicSwap ==
  /\ \A t \in Threads : mpc[t] = "swap" => tmp[t] = data
  /\ AllReplaced =>
       /\ {tmp[t] : t \in Threads} \cup {data} = {0} \cup Threads
       /\ lock = FALSE


\* C20: under fair scheduling every call_once call eventually returns to its
\* caller; a call that finds the Once completed goes from its first check
\* straight to its return, with no wait and no action run, and no action runs
\* once the Once is completed.
C20_CallOnceProgress ==
  /\ \A t \in Threads :
       (pc[t] # "idle") ~> (pc[t] = "idle" /\ res[t] = <<"returned", 0>>)
  /\ [][ IsCompleted(state) =>
           /\ ran' = ran
           /\ \A t \in Threads :
                pc[t] = "co_check" => pc'[t] \in {"co_check", "co_done"} ]_vars

\* The winner and every other caller have returned, and a thread that did
\* not run the action has reached the end of a further call.
C20_Witness ==
  \E t \in Threads :
    /\ Len(ran) = 1 /\ ran[1] # t
    /\ pc[t] = "co_done" /\ res[t] = <<"returned", 0>>
    /\ \A u \in Threads \ {t} : pc[u] = "idle" /\ res[u] = <<"returned", 0>>


\* ------------------------------------------------------------ Waiting loops

\* A thread is in one call at a time: lock() or lock_weak() is entered by a
\* thread that is not inside call_once, and call_once by a thread that is in
\* no mutex operation.
WaitLockCall(t) == pc[t] = "idle" /\ LockCall(t)
WaitLockWeakCall(t) == pc[t] = "idle" /\ LockWeakCall(t)
WaitOnceCall(t) == mpc[t] = "idle" /\ OnceCall(t)

\* The three waiting loops: threads contend for the mutex through lock() and
\* lock_weak(), and race call_once on the Once.
NextWait ==
  \E t \in Threads :
    \/ WaitLockCall(t)
    \/ LockTrySome(t)
    \/ LockTryNone(t)
    \/ LockReturn(t)
    \/ WaitLockWeakCall(t)
    \/ LockWeakSome(t)
    \/ LockWeakFail(t)
    \/ GuardDrop(t)
    \/ WaitOnceCall(t)
    \/ CallOnceStep(t)
    \/ OnceRunAction(t)
    \/ OnceReturn(t)

SpecWait == InitMutex /\ [][NextWait]_vars

\* Thread t is in the loop of lock() or lock_weak(), or t is a losing
\* call_once caller in the wait loop.
InMutexLoop(t) == mpc[t] \in {"lock", "lock_weak"}
InOnceLoop(t) == pc[t] = "co_wait"

\* This step is a turn of the loop body of thread t: a failed attempt.
MutexTurn(t) ==
  /\ InMutexLoop(t) /\ mpc'[t] = mpc[t]
  /\ hint'[t] # hint[t] \/ tries'[t] # tries[t]
OnceTurn(t) == InOnceLoop(t) /\ pc'[t] = pc[t] /\ hint'[t] # hint[t]

\* The mutex's backoff in a hosted build: `tries` counts the failed attempts of
\* the call up to 10; each of the first 10 failed attempts spins without a
\* yield, every failed attempt after them yields.
MutexBackoffState(t) ==
  (std /\ mpc[t] \in {"lock", "lock_weak", "lock_tmp"}) =>
    /\ tries[t] \in 0..SpinLimit
    /\ hint[t] = "none" <=> tries[t] = 0
    /\ hint[t] = "yield" => tries[t] = SpinLimit
MutexBackoffStep(t) ==
  (std /\ MutexTurn(t)) =>
    IF tries[t] < SpinLimit
      THEN tries'[t] = tries[t] + 1 /\ hint'[t] = "spin"
      ELSE tries'[t] = tries[t] /\ hint'[t] = "yield"

\* In a build without std no waiting loop yields.
NoYieldUnhosted == ~std => \A t \in Threads : hint[t] # "yield"

\* The first yield of a waiting loop comes after a turn of pure spin.
SpinsBeforeYield(t) ==
  (hint'[t] = "yield" /\ hint[t] # "yield") => hint[t] = "spin"

\* The wait loop of call_once in a hosted build yields on every turn, the
\* first included, and never spins.
OnceYieldsEveryTurn(t) ==
  /\ (std /\ InOnceLoop(t)) => hint[t] \in {"none", "yield"}
  /\ (std /\ OnceTurn(t)) => hint'[t] = "yield"

====
